---------------------------- MODULE Spec2Model ----------------------------
(***************************************************************************)
(* Model of the scheduled Reddit scanner worker (src/src/index.ts).        *)
(*                                                                         *)
(* One invocation of `scheduled` fetches the newest posts, reads every     *)
(* stored post from the KV namespace, stores and announces the posts that  *)
(* are not stored yet, and finally deletes the stored posts older than     *)
(* maxAgeDays.  Every `await` on the KV namespace or on the webhook is an  *)
(* interleaving point: an action of the model is one awaited call taking   *)
(* effect together with the synchronous code that runs when it returns,    *)
(* up to the point where the next call is issued.                          *)
(*                                                                         *)
(* Timestamps are epoch milliseconds.  They are written as a pair          *)
(* [d, ms] = d * MsPerDay + ms, because 30 days of milliseconds            *)
(* (2,592,000,000) do not fit TLC's 32-bit integers.                       *)
(***************************************************************************)
EXTENDS Integers, Sequences, FiniteSets, TLC

----------------------------------------------------------------------------
(* Bounds of the model *)

\* number of distinct post identifiers the feed can return
MaxIds == 3
\* longest listing a fetch returns (at most the client's limit)
MaxFetch == 3
\* the clock's day component runs over 0, DayStep, 2*DayStep, ... <= MaxDay
MaxDay == 30
DayStep == 30
\* the clock's millisecond-within-day component runs over 0..MaxMs
MaxMs == 1
\* number of invocations of `scheduled` in a behaviour
MaxRuns == 3
\* number of invocations in a behaviour where invocations may overlap
MaxOverlapRuns == 2
\* number of calls (feed, store, webhook) that fail in a behaviour
MaxFaults == 1

----------------------------------------------------------------------------
(* Program constants *)

\* RedditAPI constructor: limit = 5
limit == 5
\* cleanupOldPosts(kv, maxAgeDays = 30)
maxAgeDays == 30
\* 24 * 60 * 60 * 1000 in cleanupOldPosts
MsPerDay == 24 * 60 * 60 * 1000

\* the two invocations of `scheduled` that may be in flight at once
Slots == {"a", "b"}

PostIds == 1..MaxIds

\* a key of the namespace that holds no value
NoValue == <<>>

\* JavaScript null where an object is expected
Null == [null |-> TRUE]

----------------------------------------------------------------------------
(* Time arithmetic on [d, ms] *)

Time(d, ms) == [d |-> d, ms |-> ms]

\* a < b on epoch milliseconds
Before(a, b) == a.d < b.d \/ (a.d = b.d /\ a.ms < b.ms)

\* a - b on epoch milliseconds, with borrow from the day component
Minus(a, b) ==
    IF a.ms >= b.ms
      THEN [d |-> a.d - b.d, ms |-> a.ms - b.ms]
      ELSE [d |-> a.d - b.d - 1, ms |-> a.ms - b.ms + MsPerDay]

\* const maxAgeMs = maxAgeDays * 24 * 60 * 60 * 1000
maxAgeMs(days) == [d |-> days, ms |-> 0]

\* a cutoff that forgets the age
CutoffTimeNow(clock, days) == clock

\* const cutoffTime = Date.now() - maxAgeMs
CutoffTime(clock, days) == Minus(clock, maxAgeMs(days))

----------------------------------------------------------------------------
(* Values *)

\* interface RedditPost, reduced to the field the pipeline decides on
RedditPost(id) == [id |-> id]

\* the listings getPosts can return from /r/guinness/new?limit=5: at most
\* `limit` posts, newest first (identifiers grow with the time of posting)
Feeds ==
    LET n == IF MaxFetch < limit THEN MaxFetch ELSE limit
    IN  { f \in UNION { [1..k -> {RedditPost(i) : i \in PostIds}] : k \in 0..n } :
            \A i, j \in DOMAIN f : i < j => f[i].id > f[j].id }

\* a record that carries another post's identifier
StoredPostOfShifted(post, clock) ==
    [post_id |-> (post.id % MaxIds) + 1, stored_at |-> clock]

\* const storedPost: StoredPost = { post_id: post.id, ..., stored_at: Date.now() }
StoredPostOf(post, clock) == [post_id |-> post.id, stored_at |-> clock]

\* a key built from another post's identifier
PostKeyShifted(id) == <<"post:", (id % MaxIds) + 1>>

\* `post:${post.id}`
PostKey(id) == <<"post:", id>>

Keys == { <<"post:", i>> : i \in PostIds }

\* JSON.stringify(storedPost): the serialized text, as the list of its fields
JSONStringify(storedPost) == <<storedPost.post_id, storedPost.stored_at>>

\* the "json" type of kv.get: the text parsed back into an object
JSONParse(text) == [post_id |-> text[1], stored_at |-> text[2]]

\* kv.get(key, "json"): null for a key without a value
KVGetJson(store, key) ==
    IF store[key] = NoValue THEN Null ELSE JSONParse(store[key])

\* kv.put(key, value): overwrites the value at the key
KVPutValue(store, key, value) == [store EXCEPT ![key] = value]

\* kv.delete(key)
KVDelete(store, key) == [store EXCEPT ![key] = NoValue]

\* a write that keeps the value already at the key
StoreWriteIfAbsent(store, post, storedPost) ==
    IF store[PostKey(post.id)] = NoValue
      THEN KVPutValue(store, PostKey(post.id), JSONStringify(storedPost))
      ELSE store

\* a write that never reaches the namespace
StoreWriteLost(store, post, storedPost) == store

\* await kv.put(`post:${post.id}`, JSON.stringify(storedPost))
StoreWrite(store, post, storedPost) ==
    KVPutValue(store, PostKey(post.id), JSONStringify(storedPost))

\* kv.list({ prefix }): the keys that hold a value and start with the prefix,
\* in the store's (lexicographic) key order
ListKeys(store, prefix) ==
    LET S == { k \in DOMAIN store : store[k] # NoValue /\ k[1] = prefix }
    IN  CHOOSE s \in [1..Cardinality(S) -> S] :
            /\ \A k \in S : \E i \in DOMAIN s : s[i] = k
            /\ \A i, j \in DOMAIN s : i < j => s[i][2] < s[j][2]

\* no filtering: every fetched post counts as new
NewPostsAll(posts, storedPosts) == posts

\* posts.filter(post => !storedPosts.some(sp => sp.post_id === post.id))
NewPosts(posts, storedPosts) ==
    LET isNew(post) ==
            ~ \E j \in DOMAIN storedPosts : storedPosts[j].post_id = post.id
    IN  SelectSeq(posts, isNew)

\* a comparison that also takes the record stored exactly at the cutoff
IsOldInclusive(postData, cutoffTime) ==
    postData # Null /\ ~ Before(cutoffTime, postData.stored_at)

\* postData && postData.stored_at < cutoffTime
IsOld(postData, cutoffTime) ==
    postData # Null /\ Before(postData.stored_at, cutoffTime)

Fault(op, key) == [op |-> op, key |-> key]

----------------------------------------------------------------------------
(* State *)

VARIABLES
    now,    \* Date.now()
    kv,     \* env.REDDIT_KV: key -> serialized value, or NoValue
    env,    \* env.DISCORD_WEBHOOK_URL is set
    run,    \* per invocation of `scheduled`: its position and its locals
    prev,   \* summary of the invocation that returned last
    started, \* number of invocations so far
    failed   \* number of calls that have failed so far

vars == <<now, kv, env, run, prev, started, failed>>

\* an invocation that has not started: the locals of scheduled,
\* getPostsFromKV, storePostInKV and cleanupOldPosts, and the record of the
\* calls the invocation has made
IdleRun ==
    [ pc           |-> "idle",
      posts        |-> <<>>,     \* scheduled: posts
      listResult   |-> <<>>,     \* listResult.keys still to be visited
      storedPosts  |-> <<>>,     \* getPostsFromKV: posts / scheduled: storedPosts
      newPosts     |-> <<>>,     \* scheduled: newPosts
      storedPost   |-> Null,     \* storePostInKV: storedPost
      cutoffTime   |-> Time(0, 0), \* cleanupOldPosts: cutoffTime
      postData     |-> Null,     \* cleanupOldPosts: postData
      deletedCount |-> 0,        \* cleanupOldPosts: deletedCount
      caught       |-> FALSE,    \* the catch of scheduled has run
      putLog       |-> <<>>,     \* kv.put calls made: post id, success, stored_at
      notifyLog    |-> <<>>,     \* sendDiscordNotification calls: post id, outcome
      faults       |-> {},       \* the calls that failed
      sweepAt      |-> Time(0, 0), \* Date.now() read by cleanupOldPosts
      sweepKeys    |-> <<>>,     \* the keys cleanupOldPosts listed
      deleted      |-> {},       \* the <<key, record>> pairs cleanupOldPosts deleted
      sweeps       |-> 0,        \* calls of cleanupOldPosts made by scheduled
      countLog     |-> <<>> ]    \* the counts logged by "Cleanup complete. Deleted ..."

NoRun == [clean |-> FALSE, posts |-> <<>>, swept |-> {}, notified |-> {}]

\* the identifiers for which the invocation made a webhook POST
Posted(r) ==
    { r.notifyLog[j].id :
        j \in { i \in DOMAIN r.notifyLog : r.notifyLog[i].outcome # "skipped" } }

StoreOps == {"list", "get", "put", "cleanList", "cleanGet", "cleanDelete"}

\* what is remembered of an invocation once it has returned: whether it
\* fetched its posts and all its store calls succeeded, and if so its posts
\* and the identifiers among them that its sweep deleted; and the
\* identifiers for which this or an earlier invocation made a webhook POST
Summary(r) ==
    LET last ==
          IF r.caught \/ \E f \in r.faults : f.op \in StoreOps
            THEN NoRun
            ELSE [ clean |-> TRUE,
                   posts |-> r.posts,
                   swept |-> { p[2].post_id : p \in r.deleted }
                                \cap { r.posts[i].id : i \in DOMAIN r.posts },
                   notified |-> {} ]
    IN  [last EXCEPT !.notified = prev.notified \cup Posted(r)]

Init ==
    /\ now = Time(0, 0)
    /\ kv \in { store \in [Keys -> {NoValue} \cup
                     {JSONStringify(StoredPostOf(RedditPost(i), Time(0, 0))) :
                        i \in PostIds}] :
                 \A i \in PostIds :
                    store[PostKey(i)] # NoValue => store[PostKey(i)][1] = i }
    /\ env \in [DISCORD_WEBHOOK_URL : BOOLEAN]
    /\ run = [t \in Slots |-> IdleRun]
    /\ prev = NoRun
    /\ started = 0
    /\ failed = 0

\* no invocation is about to return: the return of scheduled follows its
\* last step at once
NoneDone == \A t \in Slots : run[t].pc # "done"

\* the invocation in slot t moves to r
Step(t, r) == NoneDone /\ run' = [run EXCEPT ![t] = r]

\* the outcomes a call can have: it can fail while the budget allows
Outcomes == IF failed < MaxFaults THEN {TRUE, FALSE} ELSE {TRUE}

\* the count of failed calls after a call that ended ok or not
Count(ok) == failed' = IF ok THEN failed ELSE failed + 1

Active(r) == r.pc \notin {"idle", "done"}

----------------------------------------------------------------------------
(* Control flow of one invocation, as functions from its record to its
   record at the next awaited call *)

\* a catch after which the invocation goes on to read the store
ScheduledCatchGoesOn(r) == [r EXCEPT !.pc = "list", !.caught = TRUE]

\* a catch of scheduled that throws the error again: the promise rejects
ScheduledCatchRethrows(r) == [r EXCEPT !.pc = "rejected", !.caught = TRUE]

\* catch (error) of scheduled: logs, and the invocation returns
ScheduledCatch(r) == [r EXCEPT !.pc = "done", !.caught = TRUE]

\* a loop that takes the new posts from the end of the list
CurrentPostFromEnd(r) == r.newPosts[Len(r.newPosts) - Len(r.notifyLog)]

\* the post the for loop of scheduled is at
CurrentPost(r) == r.newPosts[Len(r.notifyLog) + 1]

\* a loop that returns without the sweep when there was no new post
LoopHeadSkipsSweep(r, clock) ==
    IF Len(r.notifyLog) < Len(r.newPosts)
      THEN [r EXCEPT !.pc = "put",
                     !.storedPost = StoredPostOf(CurrentPost(r), clock)]
      ELSE IF r.newPosts = <<>>
             THEN [r EXCEPT !.pc = "done"]
             ELSE [r EXCEPT !.pc = "cleanList",
                            !.storedPost = Null,
                            !.cutoffTime = CutoffTime(clock, maxAgeDays),
                            !.sweepAt = clock,
                            !.sweeps = @ + 1]

\* for (const post of newPosts): the next post enters storePostInKV, which
\* builds storedPost and issues kv.put; after the last post scheduled enters
\* cleanupOldPosts, which computes cutoffTime and issues kv.list
LoopHead(r, clock) ==
    IF Len(r.notifyLog) < Len(r.newPosts)
      THEN [r EXCEPT !.pc = "put",
                     !.storedPost = StoredPostOf(CurrentPost(r), clock)]
      ELSE [r EXCEPT !.pc = "cleanList",
                     !.storedPost = Null,
                     !.cutoffTime = CutoffTime(clock, maxAgeDays),
                     !.sweepAt = clock,
                     !.sweeps = @ + 1]

\* getPostsFromKV has returned `stored`: scheduled filters the fetched posts
\* and starts the loop
AfterGetPostsFromKV(r, stored, clock) ==
    LoopHead([r EXCEPT !.storedPosts = stored,
                       !.listResult = <<>>,
                       !.newPosts = NewPosts(r.posts, stored)], clock)

\* a getPostsFromKV whose failure reaches the catch of scheduled
GetPostsFromKVRethrow(r, clock) == ScheduledCatch(r)

\* catch (error) of getPostsFromKV: logs and returns []
GetPostsFromKVCatch(r, clock) == AfterGetPostsFromKV(r, <<>>, clock)

\* sendDiscordNotification has returned: the loop moves on
AfterNotification(r, outcome, clock) ==
    LoopHead([r EXCEPT !.notifyLog =
                 Append(@, [id |-> CurrentPost(r).id, outcome |-> outcome])],
             clock)

\* a sendDiscordNotification whose failure reaches the catch of scheduled
SendDiscordNotificationRethrow(r, clock) ==
    ScheduledCatch([r EXCEPT !.notifyLog =
        Append(@, [id |-> CurrentPost(r).id, outcome |-> "failed"])])

\* catch (error) of sendDiscordNotification: logs and returns
SendDiscordNotificationCatch(r, clock) == AfterNotification(r, "failed", clock)

\* a sendDiscordNotification that issues the POST whatever the webhook URL
AfterStorePostInKVAlwaysPosts(r, clock, webhookUrl) == [r EXCEPT !.pc = "notify"]

\* storePostInKV has returned: sendDiscordNotification returns at once
\* without a webhook URL, and issues the POST otherwise
AfterStorePostInKV(r, clock, webhookUrl) ==
    IF ~ webhookUrl
      THEN AfterNotification(r, "skipped", clock)
      ELSE [r EXCEPT !.pc = "notify"]

\* a storePostInKV whose failure reaches the catch of scheduled
StorePostInKVRethrow(r, clock, webhookUrl) == ScheduledCatch(r)

\* catch (error) of storePostInKV: logs and returns
StorePostInKVCatch(r, clock, webhookUrl) ==
    AfterStorePostInKV(r, clock, webhookUrl)

\* catch (error) of cleanupOldPosts: logs and returns; scheduled returns
CleanupOldPostsCatch(r) == [r EXCEPT !.pc = "done"]

\* console.log(`Cleanup complete. Deleted ${deletedCount} old posts.`):
\* the last line of the try block of cleanupOldPosts; scheduled returns
CleanupComplete(r) ==
    [r EXCEPT !.pc = "done",
              !.listResult = <<>>,
              !.postData = Null,
              !.countLog = Append(@, r.deletedCount)]

\* the for loop of cleanupOldPosts moves to the next key, or the function
\* logs the count and returns
CleanupNext(r) ==
    IF Len(r.listResult) > 1
      THEN [r EXCEPT !.pc = "cleanGet",
                     !.listResult = Tail(@),
                     !.postData = Null]
      ELSE CleanupComplete(r)

----------------------------------------------------------------------------
(* Actions *)

\* scheduled, up to the return of reddit.getPosts(): a token or listing
\* response that is not ok throws, and the throw reaches the catch of
\* scheduled; otherwise kv.list is issued by getPostsFromKV
Scheduled(t) ==
    /\ run[t].pc = "idle"
    /\ started < MaxRuns
    /\ started' = started + 1
    /\ \E tokenOk, resOk \in Outcomes, feed \in Feeds :
         LET r0 == [IdleRun EXCEPT !.pc = "list"]
         IN  Count(tokenOk /\ resOk) /\
             IF tokenOk /\ resOk
               THEN Step(t, [r0 EXCEPT !.posts = feed])
               ELSE /\ feed = <<>>
                    /\ (tokenOk \/ resOk)
                    /\ Step(t, ScheduledCatch(
                          [r0 EXCEPT !.faults =
                              {Fault(IF tokenOk THEN "getPosts" ELSE "getAccessToken",
                                     NoValue)}]))
    /\ UNCHANGED <<now, kv, env, prev>>

\* getPostsFromKV: await kv.list({ prefix: "post:" })
GetPostsFromKVList(t) ==
    LET r == run[t] IN
    /\ r.pc = "list"
    /\ \E ok \in Outcomes :
         Count(ok) /\
         IF ok
           THEN LET keys == ListKeys(kv, "post:")
                IN  IF keys = <<>>
                      THEN Step(t, AfterGetPostsFromKV(r, <<>>, now))
                      ELSE Step(t, [r EXCEPT !.pc = "get", !.listResult = keys])
           ELSE Step(t, GetPostsFromKVCatch(
                    [r EXCEPT !.faults = @ \cup {Fault("list", NoValue)}], now))
    /\ UNCHANGED <<now, kv, env, prev, started>>

\* getPostsFromKV: await kv.get(key.name, "json") for the next listed key
GetPostsFromKVGet(t) ==
    LET r == run[t]
        key == Head(r.listResult)
    IN
    /\ r.pc = "get"
    /\ \E ok \in Outcomes :
         Count(ok) /\
         IF ok
           THEN LET postData == KVGetJson(kv, key)
                    posts == IF postData # Null
                               THEN Append(r.storedPosts, postData)
                               ELSE r.storedPosts
                IN  IF Len(r.listResult) > 1
                      THEN Step(t, [r EXCEPT !.listResult = Tail(@),
                                             !.storedPosts = posts])
                      ELSE Step(t, AfterGetPostsFromKV(r, posts, now))
           ELSE Step(t, GetPostsFromKVCatch(
                    [r EXCEPT !.faults = @ \cup {Fault("get", key)}], now))
    /\ UNCHANGED <<now, kv, env, prev, started>>

\* storePostInKV: await kv.put(`post:${post.id}`, JSON.stringify(storedPost)),
\* then sendDiscordNotification up to its POST
StorePostInKV(t) ==
    LET r == run[t]
        post == CurrentPost(r)
        key == PostKey(post.id)
        entry(ok) == [id |-> post.id, ok |-> ok, at |-> r.storedPost.stored_at]
    IN
    /\ r.pc = "put"
    /\ \E ok \in Outcomes :
         Count(ok) /\
         IF ok
           THEN /\ kv' = StoreWrite(kv, post, r.storedPost)
                /\ Step(t, AfterStorePostInKV(
                      [r EXCEPT !.putLog = Append(@, entry(TRUE))],
                      now, env.DISCORD_WEBHOOK_URL))
           ELSE /\ kv' = kv
                /\ Step(t, StorePostInKVCatch(
                      [r EXCEPT !.putLog = Append(@, entry(FALSE)),
                                !.faults = @ \cup {Fault("put", key)}],
                      now, env.DISCORD_WEBHOOK_URL))
    /\ UNCHANGED <<now, env, prev, started>>

\* sendDiscordNotification: await fetch(webhookUrl, { method: "POST", ... }):
\* the response is ok, or not ok (logged), or the call throws
SendDiscordNotification(t) ==
    LET r == run[t]
        bad == [r EXCEPT !.faults =
                      @ \cup {Fault("webhook", PostKey(CurrentPost(r).id))}]
    IN
    /\ r.pc = "notify"
    /\ \E outcome \in {"sent"} \cup
                        (IF FALSE \in Outcomes THEN {"notOk", "threw"} ELSE {}) :
         Count(outcome = "sent") /\
         CASE outcome = "sent"  -> Step(t, AfterNotification(r, "sent", now))
           [] outcome = "notOk" -> Step(t, AfterNotification(bad, "failed", now))
           [] outcome = "threw" -> Step(t, SendDiscordNotificationCatch(bad, now))
    /\ UNCHANGED <<now, kv, env, prev, started>>

\* cleanupOldPosts: await kv.list({ prefix: "post:" })
CleanupOldPostsList(t) ==
    LET r == run[t] IN
    /\ r.pc = "cleanList"
    /\ \E ok \in Outcomes :
         Count(ok) /\
         IF ok
           THEN LET keys == ListKeys(kv, "post:")
                    r1 == [r EXCEPT !.sweepKeys = keys, !.deletedCount = 0]
                IN  IF keys = <<>>
                      THEN Step(t, CleanupComplete(r1))
                      ELSE Step(t, [r1 EXCEPT !.pc = "cleanGet",
                                              !.listResult = keys])
           ELSE Step(t, CleanupOldPostsCatch(
                    [r EXCEPT !.faults = @ \cup {Fault("cleanList", NoValue)}]))
    /\ UNCHANGED <<now, kv, env, prev, started>>

\* cleanupOldPosts: await kv.get(key.name, "json") for the next listed key
CleanupOldPostsGet(t) ==
    LET r == run[t]
        key == Head(r.listResult)
    IN
    /\ r.pc = "cleanGet"
    /\ \E ok \in Outcomes :
         Count(ok) /\
         IF ok
           THEN LET postData == KVGetJson(kv, key)
                IN  IF IsOld(postData, r.cutoffTime)
                      THEN Step(t, [r EXCEPT !.pc = "cleanDelete",
                                             !.postData = postData])
                      ELSE Step(t, CleanupNext(r))
           ELSE Step(t, CleanupOldPostsCatch(
                    [r EXCEPT !.faults = @ \cup {Fault("cleanGet", key)}]))
    /\ UNCHANGED <<now, kv, env, prev, started>>

\* cleanupOldPosts: await kv.delete(key.name); deletedCount++
CleanupOldPostsDelete(t) ==
    LET r == run[t]
        key == Head(r.listResult)
    IN
    /\ r.pc = "cleanDelete"
    /\ \E ok \in Outcomes :
         Count(ok) /\
         IF ok
           THEN /\ kv' = KVDelete(kv, key)
                /\ Step(t, CleanupNext(
                      [r EXCEPT !.deletedCount = @ + 1,
                                !.deleted = @ \cup {<<key, r.postData>>}]))
           ELSE /\ kv' = kv
                /\ Step(t, CleanupOldPostsCatch(
                      [r EXCEPT !.faults = @ \cup {Fault("cleanDelete", key)}]))
    /\ UNCHANGED <<now, env, prev, started>>

\* the clock moves by a millisecond
AdvanceMs ==
    /\ NoneDone
    /\ now.ms < MaxMs
    /\ now' = Time(now.d, now.ms + 1)
    /\ UNCHANGED <<kv, env, run, prev, started, failed>>

\* days pass between invocations: an invocation lasts far less than a day
AdvanceDays ==
    /\ \A t \in Slots : run[t].pc = "idle"
    /\ now.d + DayStep <= MaxDay
    /\ \E ms \in 0..MaxMs : now' = Time(now.d + DayStep, ms)
    /\ UNCHANGED <<kv, env, run, prev, started, failed>>

\* scheduled is invoked while no other invocation is in flight
ScheduledAlone(t) ==
    /\ \A u \in Slots : ~ Active(run[u])
    /\ t = "a"
    /\ Scheduled(t)

\* scheduled is invoked, possibly while another invocation is in flight:
\* the second invocation in flight takes the free slot
ScheduledAny(t) ==
    /\ started < MaxOverlapRuns
    /\ t = "b" => Active(run["a"])
    /\ Scheduled(t)

\* scheduled returns to the platform
Return(t) ==
    /\ run[t].pc = "done"
    /\ run' = [run EXCEPT ![t] = IdleRun]
    /\ prev' = Summary(run[t])
    /\ UNCHANGED <<now, kv, env, started, failed>>

\* every invocation returns before the next one starts
Next ==
    \/ \E t \in Slots : ScheduledAlone(t)
    \/ \E t \in Slots : GetPostsFromKVList(t)
    \/ \E t \in Slots : GetPostsFromKVGet(t)
    \/ \E t \in Slots : StorePostInKV(t)
    \/ \E t \in Slots : SendDiscordNotification(t)
    \/ \E t \in Slots : CleanupOldPostsList(t)
    \/ \E t \in Slots : CleanupOldPostsGet(t)
    \/ \E t \in Slots : CleanupOldPostsDelete(t)
    \/ \E t \in Slots : Return(t)
    \/ AdvanceMs
    \/ AdvanceDays

Spec == Init /\ [][Next]_vars

\* the platform invokes scheduled again before the previous invocation has
\* returned
NextOverlap ==
    \/ \E t \in Slots : ScheduledAny(t)
    \/ \E t \in Slots : GetPostsFromKVList(t)
    \/ \E t \in Slots : GetPostsFromKVGet(t)
    \/ \E t \in Slots : StorePostInKV(t)
    \/ \E t \in Slots : SendDiscordNotification(t)
    \/ \E t \in Slots : CleanupOldPostsList(t)
    \/ \E t \in Slots : CleanupOldPostsGet(t)
    \/ \E t \in Slots : CleanupOldPostsDelete(t)
    \/ \E t \in Slots : Return(t)
    \/ AdvanceMs
    \/ AdvanceDays

\* overlapping invocations, from an empty namespace with the webhook set
InitOverlap ==
    /\ Init
    /\ kv = [k \in Keys |-> NoValue]
    /\ env.DISCORD_WEBHOOK_URL

SpecOverlap == InitOverlap /\ [][NextOverlap]_vars

----------------------------------------------------------------------------
(* Vocabulary of the properties *)

IdsOf(seq) == [i \in DOMAIN seq |-> seq[i].id]

\* the keys whose value is a record of the identifier
RecordKeys(id) == { k \in Keys : kv[k] # NoValue /\ kv[k][1] = id }

\* the invocation has fetched its posts, read the store and filtered
Filtered(r) == r.pc \notin {"idle", "list", "get"} /\ ~ r.caught

\* the for loop over newPosts has ended
LoopEnded(r) == Filtered(r) /\ r.pc \notin {"put", "notify"}

\* no store call of the invocation has failed so far
StoreClean(r) == \A f \in r.faults : f.op \notin StoreOps

\* no call of getPostsFromKV has failed
ReadClean(r) == \A f \in r.faults : f.op \notin {"list", "get"}

\* cleanupOldPosts has run to its last line
SweepCompleted(r) ==
    /\ r.pc = "done"
    /\ ~ r.caught
    /\ \A f \in r.faults : f.op \notin {"cleanList", "cleanGet", "cleanDelete"}

\* the token request or the listing request of the invocation failed
FeedFailed(r) ==
    \E f \in r.faults : f.op \in {"getAccessToken", "getPosts"}

\* the positions of an invocation whose promise has not rejected: not
\* started, at one of its awaited calls, or returning
NormalPositions ==
    {"idle", "list", "get", "put", "notify",
     "cleanList", "cleanGet", "cleanDelete", "done"}

\* stored_at < at - maxAgeDays * 86,400,000 ms
Older(stored_at, at) ==
    \/ stored_at.d + maxAgeDays < at.d
    \/ stored_at.d + maxAgeDays = at.d /\ stored_at.ms < at.ms

----------------------------------------------------------------------------
(* C1 *)

----------------------------------------------------------------------------
(* C2 *)

\* C2: the posts an invocation stores and announces are the fetched posts
\* whose identifier is the post_id of no record that getPostsFromKV
\* returned, each once and in the order of the listing; a successful write
\* goes to the key "post:" + id.
C2_NewPostsStoredAndNotifiedInOrder ==
    \A t \in Slots :
        LET r == run[t]
            storedIds == { r.storedPosts[j].post_id : j \in DOMAIN r.storedPosts }
            notStored(id) == id \notin storedIds
            expected == SelectSeq(IdsOf(r.posts), notStored)
        IN  Filtered(r) =>
              /\ IdsOf(r.newPosts) = expected
              /\ Len(r.notifyLog) <= Len(r.putLog)
              /\ Len(r.putLog) <= Len(r.notifyLog) + 1
              /\ Len(r.putLog) <= Len(expected)
              /\ \A j \in DOMAIN r.putLog : r.putLog[j].id = expected[j]
              /\ \A j \in DOMAIN r.notifyLog : r.notifyLog[j].id = expected[j]
              /\ LoopEnded(r) =>
                    Len(r.putLog) = Len(expected) /\ Len(r.notifyLog) = Len(expected)
              /\ \A j \in DOMAIN r.putLog :
                    r.putLog[j].ok => kv[<<"post:", expected[j]>>] # NoValue

\* posts [2, 1] were fetched with 1 stored: the invocation has returned
\* after one write, of key post:2, and one notification, for 2
C2_Witness ==
    \E t \in Slots :
        LET r == run[t] IN
        /\ r.pc = "done"
        /\ IdsOf(r.posts) = <<2, 1>>
        /\ Len(r.storedPosts) = 1 /\ r.storedPosts[1].post_id = 1
        /\ Len(r.putLog) = 1 /\ r.putLog[1].id = 2 /\ r.putLog[1].ok
        /\ r.notifyLog = <<[id |-> 2, outcome |-> "sent"]>>
        /\ kv[<<"post:", 2>>] # NoValue /\ kv[<<"post:", 3>>] = NoValue

----------------------------------------------------------------------------
(* C3 *)

\* the step is a successful kv.put by the invocation in slot t
PutSucceeds(t) ==
    /\ Len(run'[t].putLog) = Len(run[t].putLog) + 1
    /\ run'[t].putLog[Len(run'[t].putLog)].ok

\* C3: the store never holds two records of one identifier, and a
\* successful write of an identifier leaves exactly one record of it, which
\* carries the stored_at of that write, also when a record of the
\* identifier was there before.
C3_OneRecordPerId ==
    /\ [](\A id \in PostIds : Cardinality(RecordKeys(id)) <= 1)
    /\ [][\A t \in Slots :
            PutSucceeds(t) =>
              LET e == run'[t].putLog[Len(run'[t].putLog)] IN
              { kv'[k] : k \in { k \in Keys : kv'[k] # NoValue /\ kv'[k][1] = e.id } }
                 = { <<e.id, e.at>> }]_vars

\* both invocations have written post 1, slot a with the earlier stored_at,
\* and the one record of it carries the stored_at of the later write
C3_Witness ==
    /\ \E i \in DOMAIN run["a"].putLog :
          run["a"].putLog[i] = [id |-> 1, ok |-> TRUE, at |-> Time(0, 0)]
    /\ \E j \in DOMAIN run["b"].putLog :
          run["b"].putLog[j] = [id |-> 1, ok |-> TRUE, at |-> Time(0, 1)]
    /\ RecordKeys(1) = {<<"post:", 1>>}
    /\ kv[<<"post:", 1>>][2] = Time(0, 1)

----------------------------------------------------------------------------
(* C4 *)

\* a record is left as it is, or deleted when its stored_at is more than
\* maxAgeDays old
KeptOrExpired ==
    \A k \in Keys :
        kv[k] # NoValue =>
            \/ kv'[k] = kv[k]
            \/ kv'[k] = NoValue /\ Older(kv[k][2], now)

\* C4, as claimed: across any sequence of invocations a stored record
\* keeps its fields, stored_at included, until the sweep deletes it once its
\* stored_at is outside the retention window.
C4_RecordNeverUpdated == [][KeptOrExpired]_vars

\* C4, amended: an invocation that overlaps no other and whose
\* getPostsFromKV read the store without a failing call never updates a
\* stored record: the record keeps its fields until the sweep deletes it once
\* its stored_at is outside the retention window.  (When a call of
\* getPostsFromKV fails the function returns [], every fetched post counts
\* as new, and the stored posts among them are written again with a new
\* stored_at.)
C4_RecordNeverUpdatedByCleanRead ==
    [][(\A t \in Slots : ReadClean(run[t])) => KeptOrExpired]_vars

\* a record stored at 0 is among the posts of an invocation that ran 30
\* days later without a failure and has returned: the record is as it was
C4_Witness ==
    \E t \in Slots :
        LET r == run[t] IN
        /\ r.pc = "done" /\ ~ r.caught /\ r.faults = {}
        /\ now = Time(30, 0)
        /\ \E i \in DOMAIN r.posts : r.posts[i].id = 1
        /\ r.newPosts = <<>>
        /\ kv[<<"post:", 1>>] = <<1, Time(0, 0)>>

----------------------------------------------------------------------------
(* C5 *)

\* C5: a sweep that runs to its end has deleted every record whose
\* stored_at is less than cutoff = now - maxAgeDays * 86,400,000 ms, where
\* now is the time the sweep read, and no other record: no record older than
\* the cutoff is left, every deleted record was older than the cutoff, and
\* every other listed key still holds its value.
C5_SweepDeletesExactlyTheOld ==
    \A t \in Slots :
        LET r == run[t]
            deletedKeys == { p[1] : p \in r.deleted }
        IN  SweepCompleted(r) =>
              /\ \A k \in Keys : kv[k] # NoValue => ~ Older(kv[k][2], r.sweepAt)
              /\ \A p \in r.deleted :
                    Older(p[2].stored_at, r.sweepAt) /\ kv[p[1]] = NoValue
              /\ \A i \in DOMAIN r.sweepKeys :
                    r.sweepKeys[i] \notin deletedKeys => kv[r.sweepKeys[i]] # NoValue

\* the sweep read the time 30 days and 1 ms: it has deleted a record stored
\* at 0 (cutoff - 1 ms) and kept a record stored at 1 ms (the cutoff)
C5_Witness ==
    \E t \in Slots :
        LET r == run[t] IN
        /\ SweepCompleted(r)
        /\ r.sweepAt = Time(30, 1)
        /\ \E p \in r.deleted : p[2].stored_at = Time(0, 0)
        /\ \E k \in Keys : kv[k] # NoValue /\ kv[k][2] = Time(0, 1)

----------------------------------------------------------------------------
(* C6 *)

\* C6, as claimed: when the read or the delete of one record fails during
\* the sweep, the sweep goes on: once cleanupOldPosts has returned, every
\* other record that was listed after it and is older than the cutoff has
\* been deleted.
C6_SweepSurvivesRecordFailure ==
    \A t \in Slots :
        LET r == run[t] IN
        (r.pc = "done" /\ ~ r.caught) =>
            \A f \in r.faults :
                f.op \in {"cleanGet", "cleanDelete"} =>
                    \A i, j \in DOMAIN r.sweepKeys :
                        (r.sweepKeys[i] = f.key /\ i < j /\ kv[r.sweepKeys[j]] # NoValue)
                            => ~ Older(kv[r.sweepKeys[j]][2], r.sweepAt)

----------------------------------------------------------------------------
(* C7 *)

\* getPostsFromKV has just returned to scheduled: no write has been made
\* since it read the store
JustRead(r) ==
    Filtered(r) /\ r.pc \in {"put", "cleanList"} /\ r.putLog = <<>>

\* C7, as claimed: when the read of one key fails, getPostsFromKV still
\* returns the record of every other key that holds one.
C7_ReadFailureSkipsOneKey ==
    \A t \in Slots :
        LET r == run[t] IN
        (JustRead(r) /\ Fault("list", NoValue) \notin r.faults) =>
            \A k \in Keys :
                (kv[k] # NoValue /\ Fault("get", k) \notin r.faults)
                    => \E j \in DOMAIN r.storedPosts :
                          r.storedPosts[j].post_id = kv[k][1]

----------------------------------------------------------------------------
(* C8 *)

\* C8: when the write of a new post fails, the failure stays inside
\* storePostInKV: the records written earlier in the invocation are still
\* stored, the loop goes on, and by the end of the loop the write of every
\* later new post has been attempted.
C8_WriteFailureIsolated ==
    \A t \in Slots :
        LET r == run[t] IN
        \A j \in DOMAIN r.putLog :
            ~ r.putLog[j].ok =>
                /\ ~ r.caught
                /\ \A i \in 1..(j - 1) :
                      r.putLog[i].ok =>
                          kv[<<"post:", r.putLog[i].id>>]
                              = <<r.putLog[i].id, r.putLog[i].at>>
                /\ r.pc \in {"put", "notify"} \/ Len(r.putLog) = Len(r.newPosts)
                /\ Len(r.notifyLog) >= j - 1

\* new posts 3, 2, 1: the write of 2 failed, the record of 3 is stored and
\* the write of 1 was made
C8_Witness ==
    \E t \in Slots :
        LET r == run[t] IN
        /\ IdsOf(r.newPosts) = <<3, 2, 1>>
        /\ Len(r.putLog) = 3
        /\ r.putLog[1].ok /\ ~ r.putLog[2].ok /\ r.putLog[3].ok
        /\ kv[<<"post:", 3>>] # NoValue
        /\ kv[<<"post:", 2>>] = NoValue
        /\ kv[<<"post:", 1>>] # NoValue

----------------------------------------------------------------------------
(* C9 *)

\* C9: a failed notification (the POST throws or its response is not ok)
\* stays inside sendDiscordNotification and is not repeated: the catch of
\* scheduled does not run, the record of the post stays stored, every
\* later new post is stored and announced, and no post is announced
\* twice in one invocation.
C9_NotificationFailureIsolated ==
    \A t \in Slots :
        LET r == run[t] IN
        /\ \A i, j \in DOMAIN r.notifyLog :
              i # j => r.notifyLog[i].id # r.notifyLog[j].id
        /\ \A j \in DOMAIN r.notifyLog :
              r.notifyLog[j].outcome = "failed" =>
                  /\ ~ r.caught
                  /\ r.notifyLog[j].id = r.newPosts[j].id
                  /\ r.putLog[j].ok =>
                        kv[<<"post:", r.notifyLog[j].id>>]
                            = <<r.putLog[j].id, r.putLog[j].at>>
                  /\ \/ r.pc \in {"put", "notify"}
                     \/ /\ Len(r.putLog) = Len(r.newPosts)
                        /\ Len(r.notifyLog) = Len(r.newPosts)

\* new posts 3, 2, 1: the notification of 3 failed, its record is stored,
\* and 2 and 1 were stored and announced
C9_Witness ==
    \E t \in Slots :
        LET r == run[t] IN
        /\ r.pc = "done"
        /\ r.notifyLog = << [id |-> 3, outcome |-> "failed"],
                            [id |-> 2, outcome |-> "sent"],
                            [id |-> 1, outcome |-> "sent"] >>
        /\ \A i \in 1..3 : r.putLog[i].ok /\ kv[<<"post:", i>>] # NoValue

----------------------------------------------------------------------------
(* C10 *)

\* C10: whatever the interleaving of two invocations, once an invocation
\* has written an identifier the store holds exactly one record of it,
\* under the key "post:" + id, also when the other invocation has written
\* the same identifier.
C10_OverlapLeavesOneRecord ==
    \A t \in Slots :
        \A j \in DOMAIN run[t].putLog :
            run[t].putLog[j].ok =>
                RecordKeys(run[t].putLog[j].id) = {<<"post:", run[t].putLog[j].id>>}

\* no call has failed; both invocations read the store before either wrote,
\* both have written post 1 and both have announced it: the store holds
\* one record of it
C10_Witness ==
    /\ failed = 0
    /\ \A t \in Slots :
          /\ run[t].storedPosts = <<>>
          /\ \E j \in DOMAIN run[t].putLog :
                run[t].putLog[j].id = 1 /\ run[t].putLog[j].ok
          /\ \E j \in DOMAIN run[t].notifyLog :
                run[t].notifyLog[j] = [id |-> 1, outcome |-> "sent"]
    /\ RecordKeys(1) = {<<"post:", 1>>}

----------------------------------------------------------------------------
(* C11 *)

\* C11: within one invocation the steps are sequential: the write of a new
\* post is made only when every earlier new post has been written and
\* announced, the notification of a post is made only after its write has
\* been made, and the posts are written and announced in the order of the
\* new posts.
C11_StepsOfOneTickAreSequential ==
    /\ [](\A t \in Slots :
            LET r == run[t] IN
            /\ r.pc = "put" => Len(r.putLog) = Len(r.notifyLog)
            /\ r.pc = "notify" => Len(r.putLog) = Len(r.notifyLog) + 1
            /\ Len(r.putLog) <= Len(r.newPosts)
            /\ \A j \in DOMAIN r.putLog : r.putLog[j].id = r.newPosts[j].id
            /\ \A j \in DOMAIN r.notifyLog :
                  j \in DOMAIN r.putLog /\ r.notifyLog[j].id = r.newPosts[j].id)
    /\ [][\A t \in Slots :
            /\ Len(run'[t].putLog) > Len(run[t].putLog) =>
                  /\ Len(run'[t].putLog) = Len(run[t].putLog) + 1
                  /\ Len(run[t].notifyLog) = Len(run[t].putLog)
            /\ Len(run'[t].notifyLog) > Len(run[t].notifyLog) =>
                  /\ Len(run'[t].notifyLog) = Len(run[t].notifyLog) + 1
                  /\ Len(run'[t].putLog) = Len(run'[t].notifyLog)]_vars

\* new posts 3, 2, 1 have been written and announced in this order
C11_Witness ==
    \E t \in Slots :
        LET r == run[t] IN
        /\ IdsOf(r.newPosts) = <<3, 2, 1>>
        /\ [j \in DOMAIN r.putLog |-> r.putLog[j].id] = <<3, 2, 1>>
        /\ r.notifyLog = << [id |-> 3, outcome |-> "sent"],
                            [id |-> 2, outcome |-> "sent"],
                            [id |-> 1, outcome |-> "sent"] >>
        /\ r.faults = {}

----------------------------------------------------------------------------
(* C12 *)

\* C12: when kv.list fails in getPostsFromKV, the function returns [] and
\* the invocation goes on: the catch of scheduled does not run, every
\* fetched post is a new post, and by the end of the loop each has been
\* passed to storePostInKV and to sendDiscordNotification, after which the
\* sweep is called.
C12_ListFailureTreatsAllAsNew ==
    \A t \in Slots :
        LET r == run[t] IN
        Fault("list", NoValue) \in r.faults =>
            /\ ~ r.caught
            /\ r.storedPosts = <<>>
            /\ r.newPosts = r.posts
            /\ \/ r.pc \in {"put", "notify"}
               \/ /\ [j \in DOMAIN r.putLog |-> r.putLog[j].id] = IdsOf(r.posts)
                  /\ [j \in DOMAIN r.notifyLog |-> r.notifyLog[j].id] = IdsOf(r.posts)
                  /\ r.sweeps = 1

\* the list call failed while the store held a record of post 3: posts 3
\* and 2 were both written and announced
C12_Witness ==
    \E t \in Slots :
        LET r == run[t] IN
        /\ r.faults = {Fault("list", NoValue)}
        /\ r.pc = "done"
        /\ IdsOf(r.posts) = <<3, 2>>
        /\ \E j \in DOMAIN r.putLog :
              /\ r.putLog[j].id = 3 /\ r.putLog[j].ok
              /\ r.putLog[j].at # Time(0, 0)
              /\ kv[<<"post:", 3>>] = <<3, r.putLog[j].at>>
        /\ r.notifyLog = << [id |-> 3, outcome |-> "sent"],
                            [id |-> 2, outcome |-> "sent"] >>

----------------------------------------------------------------------------
(* C13 *)

\* C13: an invocation whose fetch succeeded calls cleanupOldPosts exactly
\* once, after the loop over the new posts has ended: not before or during
\* the loop, once by the time it returns, also with no new post and also
\* when a write or a notification failed.
C13_SweepInvokedOnceAfterLoop ==
    \A t \in Slots :
        LET r == run[t] IN
        /\ r.sweeps <= 1
        /\ r.pc \in {"list", "get", "put", "notify"} => r.sweeps = 0
        /\ r.sweeps = 1 =>
              /\ r.pc \in {"cleanList", "cleanGet", "cleanDelete", "done"}
              /\ Len(r.putLog) = Len(r.newPosts)
              /\ Len(r.notifyLog) = Len(r.newPosts)
        /\ (r.pc = "done" /\ ~ FeedFailed(r)) => r.sweeps = 1

\* two posts were fetched and both were stored: with no new post the
\* invocation has returned after one sweep
C13_Witness ==
    \E t \in Slots :
        LET r == run[t] IN
        /\ r.pc = "done" /\ r.faults = {}
        /\ Len(r.posts) = 2
        /\ r.newPosts = <<>>
        /\ r.sweeps = 1
        /\ Len(r.sweepKeys) >= 2

----------------------------------------------------------------------------
(* C14 *)

\* C14: when the token response or the listing response is not ok, the
\* invocation ends in the catch of scheduled before any store call: it has
\* read nothing from the store, written and deleted nothing, announced
\* nothing and called no sweep, and the store is as it was.
C14_FeedFailureAbortsBeforeStore ==
    /\ [](\A t \in Slots :
            LET r == run[t] IN
            FeedFailed(r) =>
                /\ r.caught /\ r.pc = "done"
                /\ r.storedPosts = <<>> /\ r.listResult = <<>>
                /\ r.putLog = <<>> /\ r.notifyLog = <<>>
                /\ r.sweeps = 0 /\ r.sweepKeys = <<>> /\ r.deleted = {})
    /\ [][\A t \in Slots :
            (FeedFailed(run[t]) \/ FeedFailed(run'[t])) => kv' = kv]_vars

\* the listing response was not ok while the store held a record of post 1:
\* the invocation is in its return and the record is there
C14_Witness ==
    \E t \in Slots :
        LET r == run[t] IN
        /\ r.faults = {Fault("getPosts", NoValue)}
        /\ r.caught /\ r.pc = "done"
        /\ kv[<<"post:", 1>>] = <<1, Time(0, 0)>>
        /\ now = Time(30, 1)

----------------------------------------------------------------------------
(* C15 *)

\* C15: no error leaves scheduled: whichever call fails, the invocation is
\* afterwards at a later awaited call or in its return, never rejected, and
\* an invocation in its return goes back to the platform as completed.
C15_NoErrorPastTickBoundary ==
    /\ [](\A t \in Slots :
            /\ run[t].pc \in NormalPositions
            /\ run[t].faults # {} => run[t].pc \in NormalPositions \ {"idle"})
    /\ [][\A t \in Slots :
            /\ run'[t].faults # run[t].faults /\ run'[t].faults # {} =>
                  run'[t].pc \in NormalPositions \ {"idle"}
            /\ run[t].pc = "done" => run'[t] = IdleRun]_vars

\* a delete failed in the sweep after an earlier delete had been made: the
\* invocation is in its return, and the catch of scheduled has not run
C15_Witness ==
    \E t \in Slots :
        LET r == run[t] IN
        /\ r.pc = "done"
        /\ \E f \in r.faults : f.op = "cleanDelete"
        /\ ~ r.caught
        /\ r.deleted # {}

----------------------------------------------------------------------------
(* C16 *)

\* C16: without a webhook URL sendDiscordNotification returns at once: no
\* POST is issued and no webhook call fails, nothing reaches the catch of
\* scheduled, every new post is still passed to storePostInKV (a successful
\* write leaves its record), and the sweep is called.
C16_NoWebhookUrlIsNoOp ==
    ~ env.DISCORD_WEBHOOK_URL =>
        \A t \in Slots :
            LET r == run[t] IN
            /\ r.pc # "notify"
            /\ \A j \in DOMAIN r.notifyLog : r.notifyLog[j].outcome = "skipped"
            /\ \A f \in r.faults : f.op # "webhook"
            /\ r.caught => FeedFailed(r)
            /\ Len(r.notifyLog) = Len(r.putLog)
            /\ \A j \in DOMAIN r.putLog :
                  r.putLog[j].ok =>
                      kv[<<"post:", r.putLog[j].id>>]
                          = <<r.putLog[j].id, r.putLog[j].at>>
            /\ (r.pc \in {"cleanList", "cleanGet", "cleanDelete", "done"}
                   /\ ~ r.caught) =>
                  /\ [j \in DOMAIN r.putLog |-> r.putLog[j].id] = IdsOf(r.newPosts)
                  /\ r.sweeps = 1

\* without a webhook URL new posts 3, 2, 1 were written, none was posted,
\* and the sweep has run to its end
C16_Witness ==
    /\ ~ env.DISCORD_WEBHOOK_URL
    /\ \E t \in Slots :
          LET r == run[t] IN
          /\ r.pc = "done" /\ r.faults = {}
          /\ IdsOf(r.newPosts) = <<3, 2, 1>>
          /\ \A j \in 1..3 : r.putLog[j].ok /\ kv[<<"post:", j>>] # NoValue
          /\ r.notifyLog = << [id |-> 3, outcome |-> "skipped"],
                              [id |-> 2, outcome |-> "skipped"],
                              [id |-> 1, outcome |-> "skipped"] >>
          /\ r.sweeps = 1 /\ Len(r.countLog) = 1

----------------------------------------------------------------------------
(* C17 *)

\* C17, as claimed: every sweep that has returned, also one in which a
\* delete failed, has logged one count, the number of records it deleted.
C17_SweepReportsDeletedCount ==
    \A t \in Slots :
        LET r == run[t] IN
        (r.pc = "done" /\ r.sweeps = 1
            /\ \A f \in r.faults : f.op = "cleanDelete")
          => r.countLog = <<Cardinality(r.deleted)>>

----------------------------------------------------------------------------
(* C18 *)

\* C18, as claimed, for a post that stays in the listing: when no call
\* fails and no two invocations overlap, no webhook POST is made for a post
\* that the invocation before fetched as well and for which an earlier
\* invocation made a POST.
C18_EachIdNotifiedAtMostOnce ==
    failed = 0 =>
        \A t \in Slots :
            \A j \in DOMAIN run[t].notifyLog :
                (/\ run[t].notifyLog[j].outcome = "sent"
                 /\ prev.clean
                 /\ \E i \in DOMAIN prev.posts :
                       prev.posts[i].id = run[t].notifyLog[j].id)
                    => run[t].notifyLog[j].id \notin prev.notified

----------------------------------------------------------------------------
(* C19 *)

\* C19, as claimed: whenever the webhook POST for a post is issued or has
\* been made, the kv.put of that post in the same invocation succeeded.
C19_NotifiedOnlyAfterPersisted ==
    \A t \in Slots :
        LET r == run[t] IN
        /\ r.pc = "notify" => r.putLog[Len(r.putLog)].ok
        /\ \A j \in DOMAIN r.notifyLog :
              r.notifyLog[j].outcome # "skipped" => r.putLog[j].ok

----------------------------------------------------------------------------
(* C20 *)

\* C20: the value under the key "post:" + k always has post_id = k; and
\* when getPostsFromKV has read the store without a failing call, a fetched
\* post is left out of the new posts exactly when the key "post:" + id
\* holds a record.
C20_StoredValueMatchesKey ==
    /\ \A k \in Keys : kv[k] # NoValue => kv[k][1] = k[2]
    /\ \A t \in Slots :
          LET r == run[t] IN
          (JustRead(r) /\ ReadClean(r)) =>
              \A i \in DOMAIN r.posts :
                  (\E j \in DOMAIN r.newPosts : r.newPosts[j] = r.posts[i])
                      <=> kv[<<"post:", r.posts[i].id>>] = NoValue

\* the second invocation fetched 3, 2, 1: post 2, written by the first
\* invocation, is left out and 3 and 1 are new
C20_Witness ==
    \E t \in Slots :
        LET r == run[t] IN
        /\ JustRead(r) /\ r.faults = {}
        /\ started = 2
        /\ prev.clean /\ IdsOf(prev.posts) = <<2>> /\ prev.notified = {2}
        /\ IdsOf(r.posts) = <<3, 2, 1>>
        /\ IdsOf(r.newPosts) = <<3, 1>>
        /\ kv[<<"post:", 2>>] # NoValue

=============================================================================
